---------------------------- MODULE Spec2Model ----------------------------
(***************************************************************************)
(* Model of the MyGoalFinance API routes:                                  *)
(*   routes/transactions.ts  list, create, update, delete, monthly summary *)
(*   routes/goals.ts         list, create, update, delete                  *)
(*   routes/chat.ts          send a message to the advisor                 *)
(* together with the middleware and helpers they call.                     *)
(*                                                                         *)
(* Representation of JavaScript values:                                    *)
(*   - an optional numeric or date value is a sequence: << >> is           *)
(*     undefined, <<v>> a number, <<y, m>> the text "YYYY-MM" and          *)
(*     <<y, m, d>> the text "YYYY-MM-DD" (zero padded fields), so that the *)
(*     lexical order of the texts is the lexicographic order of the        *)
(*     tuples and a pattern test is a test of the shape;                   *)
(*   - an optional string is a string, "undefined" when absent;            *)
(*   - null is 0 for a profile id and for a category id (both are positive *)
(*     when present).                                                      *)
(***************************************************************************)
EXTENDS Integers, Sequences, FiniteSets, TLC

VARIABLES
    transaction,      \* table 'transaction': set of rows
    nextTxId,         \* next serial id of table 'transaction'
    financial_goal,   \* table 'financial_goal': set of rows
    nextGoalId,       \* next serial id of table 'financial_goal'
    res,              \* the response (and the trace) of the last request
    tz,               \* server time zone: local time = UTC + tz hours
    today,            \* server clock: local calendar date <<y, m, d>>
    chat_message,     \* table 'chat_message': set of rows
    nextMsgId,        \* next serial id of table 'chat_message'
    chat,             \* the chat requests in flight, one per connection
    apiKey            \* process.env.OPENAI_API_KEY is set

vars == <<transaction, nextTxId, financial_goal, nextGoalId, res, tz, today,
          chat_message, nextMsgId, chat, apiKey>>

(***************************************************************************)
(* Bounds of the model.                                                    *)
(***************************************************************************)
MaxTx == 2        \* rows ever inserted into 'transaction'
MaxGoals == 2     \* rows ever inserted into 'financial_goal'
MaxRows == 3      \* rows ever inserted into 'transaction' in SpecSummary
MaxChat == 2      \* chat requests in flight at the same time
MaxMsgs == 2      \* user messages ever inserted into 'chat_message'

Undefined == << >>
UndefinedStr == "undefined"
Null == 0

(***************************************************************************)
(* Calendar arithmetic of the JavaScript Date object (proleptic Gregorian, *)
(* day 0 = 1970-01-01).                                                    *)
(***************************************************************************)
\* MakeDay: day number of year y, 1-based month m in 1..12, day d (any d)
DayFromCivil(y, m, d) ==
    LET yy  == IF m <= 2 THEN y - 1 ELSE y
        era == yy \div 400
        yoe == yy - era * 400
        mp  == IF m > 2 THEN m - 3 ELSE m + 9
        doy == (153 * mp + 2) \div 5 + d - 1
        doe == yoe * 365 + yoe \div 4 - yoe \div 100 + doy
    IN  era * 146097 + doe - 719468

\* YearFromTime/MonthFromTime/DateFromTime: the date <<y, m, d>> of a day number
CivilFromDay(z) ==
    LET zz  == z + 719468
        era == zz \div 146097
        doe == zz - era * 146097
        yoe == (doe - doe \div 1460 + doe \div 36524 - doe \div 146096) \div 365
        doy == doe - (365 * yoe + yoe \div 4 - yoe \div 100)
        mp  == (5 * doy + 2) \div 153
        d   == doy - (153 * mp + 2) \div 5 + 1
        m   == IF mp < 10 THEN mp + 3 ELSE mp - 9
        y   == yoe + era * 400
    IN  <<IF m <= 2 THEN y + 1 ELSE y, m, d>>

\* new Date(year, monthIndex, day): the local day it denotes.  A year in
\* 0..99 means 1900 + year; monthIndex and day may lie outside their ranges.
NewDate(year, monthIndex, day) ==
    LET y0 == IF year >= 0 /\ year <= 99 THEN 1900 + year ELSE year
        y  == y0 + monthIndex \div 12
        m  == (monthIndex % 12) + 1
    IN  DayFromCivil(y, m, 1) + day - 1

\* d.toISOString().slice(0, 10) of local midnight of a local day: the UTC
\* calendar date of that instant
ToISODate(localDay) ==
    CivilFromDay((localDay * 24 - tz) \div 24)

\* variant: 'last' taken as day 0 of the month itself
firstLastDayOfMonthDayZeroOfSameMonth(ym) ==
    LET yy    == ym[1]
        mm    == ym[2]
        first == NewDate(yy, mm - 1, 1)
        last  == NewDate(yy, mm - 1, 0)
    IN  [from |-> ToISODate(first), to |-> ToISODate(last)]

\* firstLastDayOfMonth(ym), ym = <<yy, mm>>
firstLastDayOfMonth(ym) ==
    LET yy    == ym[1]
        mm    == ym[2]
        first == NewDate(yy, mm - 1, 1)
        last  == NewDate(yy, mm, 0)
    IN  [from |-> ToISODate(first), to |-> ToISODate(last)]

\* the patterns YM = /^\d{4}-\d{2}$/ and YMD = /^\d{4}-\d{2}-\d{2}$/
YM(s) == Len(s) = 2 /\ s[1] \in 0..9999 /\ s[2] \in 0..99
YMD(s) == Len(s) = 3 /\ s[1] \in 0..9999 /\ s[2] \in 0..99 /\ s[3] \in 0..99

\* todayYmd(): the local date of the server clock
todayYmd == today

\* the current-month token of the summary route
currentMonth == <<today[1], today[2]>>

\* lexical comparison a <= b of two date texts
DateLeq(a, b) ==
    \/ a[1] < b[1]
    \/ a[1] = b[1] /\ a[2] < b[2]
    \/ a[1] = b[1] /\ a[2] = b[2] /\ a[3] <= b[3]

(***************************************************************************)
(* Authentication and profile lookup.                                      *)
(***************************************************************************)
\* table 'user_profile': auth user "a3" has signed up but has no profile row
user_profile ==
    { [id |-> 1, id_supabase |-> "a1"],
      [id |-> 2, id_supabase |-> "a2"] }

AuthUsers == {"a1", "a2", "a3"}

\* getProfileIdByAuthId(authUserId): the profile id, or null
getProfileIdByAuthId(authUserId) ==
    IF \E p \in user_profile : p.id_supabase = authUserId
    THEN (CHOOSE p \in user_profile : p.id_supabase = authUserId).id
    ELSE Null

\* error.message values of a failed store call
StoreErrors == {"store unavailable"}

\* the response record; the fields after 'fields' trace what the handler did
NoRes ==
    [ route      |-> "none",        \* the handler that answered
      caller     |-> UndefinedStr,  \* req.user.id
      status     |-> 0,             \* HTTP status
      fields     |-> {},            \* keys of the JSON body
      detail     |-> "",            \* body.detail
      month      |-> Undefined,     \* body.month
      from       |-> Undefined,     \* lower bound the query was filtered by
      to         |-> Undefined,     \* upper bound the query was filtered by
      inc        |-> 0,
      exp        |-> 0,
      net        |-> 0,
      byCategory |-> << >>,
      rows       |-> << >>,         \* rows the store returned, in order
      userId     |-> Null,          \* profile id the handler resolved
      query      |-> [month |-> Undefined, from |-> Undefined,
                      to |-> Undefined, type |-> UndefinedStr],
      id         |-> Undefined,     \* Number(req.params.id)
      fetches    |-> 0,             \* store statements issued on the table
      storeError |-> "",            \* error.message of the store, if any
      touched    |-> {} ]           \* <<id, user_id>> of the rows the statement matched

Reply(route, caller) ==
    [NoRes EXCEPT !.route = route, !.caller = caller,
                  !.userId = getProfileIdByAuthId(caller)]

Status(r, code, detail) ==
    [r EXCEPT !.status = code, !.detail = detail, !.fields = {"detail"}]

ProfileNotFound(r) == Status(r, 404, "Perfil no encontrado")

\* res.status(400).json(parsed.error.flatten())
ValidationError(r) ==
    [r EXCEPT !.status = 400, !.fields = {"formErrors", "fieldErrors"}]

\* if (error) return res.status(400).json({ detail: error.message })
StoreFailure(r, e) ==
    [Status(r, 400, e) EXCEPT !.storeError = e, !.fetches = 1]

\* all orderings of a finite set
Orderings(S) ==
    { s \in [1..Cardinality(S) -> S] :
        \A i, j \in 1..Cardinality(S) : i # j => s[i] # s[j] }

Owners(rows) == { <<t.id, t.user_id>> : t \in rows }

(***************************************************************************)
(* Schemas (zod).                                                          *)
(***************************************************************************)
TxTypes == {"income", "expense"}

\* createSchema: amount required and finite, type in the enum, category_id a
\* positive integer when present, occurred_at matching YMD when present
createSchema(body) ==
    /\ Len(body.amount) = 1
    /\ body.type \in TxTypes
    /\ body.category_id # Undefined => body.category_id[1] > 0
    /\ body.occurred_at # Undefined => YMD(body.occurred_at)

\* updateSchema = createSchema.partial()
updateSchema(body) ==
    /\ Len(body.amount) <= 1
    /\ body.type # UndefinedStr => body.type \in TxTypes
    /\ body.category_id # Undefined => body.category_id[1] > 0
    /\ body.occurred_at # Undefined => YMD(body.occurred_at)

\* listQuerySchema
listQuerySchema(q) ==
    /\ q.month # Undefined => YM(q.month)
    /\ q.from # Undefined => YMD(q.from)
    /\ q.to # Undefined => YMD(q.to)
    /\ q.type # UndefinedStr => q.type \in TxTypes

(***************************************************************************)
(* Store statements on table 'transaction'.                                *)
(***************************************************************************)
\* .eq('user_id', userId) [.gte('occurred_at', from)] [.lte('occurred_at', to)]
\* [.eq('type', type)]
selectTransactions(userId, from, to, type) ==
    { t \in transaction :
        /\ t.user_id = userId
        /\ from # Undefined => DateLeq(from, t.occurred_at)
        /\ to # Undefined => DateLeq(t.occurred_at, to)
        /\ type # UndefinedStr => t.type = type }

\* variant: .update(patch).eq('id', id) without the owner filter
updateTargetsAnyOwner(id, userId) ==
    { t \in transaction : t.id = id }

\* .update(patch).eq('id', id).eq('user_id', userId): the rows it matches
updateTargets(id, userId) ==
    { t \in transaction : t.id = id /\ t.user_id = userId }

\* .delete().eq('id', id).eq('user_id', userId): the rows it matches
deleteTargets(id, userId) ==
    { t \in transaction : t.id = id /\ t.user_id = userId }

\* the row after SET of the keys present in the patch
applyPatch(t, patch) ==
    [t EXCEPT
       !.amount      = IF patch.amount # Undefined THEN patch.amount[1] ELSE @,
       !.type        = IF patch.type # UndefinedStr THEN patch.type ELSE @,
       !.category_id = IF patch.category_id # Undefined THEN patch.category_id[1] ELSE @,
       !.occurred_at = IF patch.occurred_at # Undefined THEN patch.occurred_at ELSE @,
       !.user_id     = IF patch.user_id # Undefined THEN patch.user_id[1] ELSE @]

\* the columns 'id, amount, type, category_id, description, occurred_at'
RowView(t) ==
    [id |-> t.id, amount |-> t.amount, type |-> t.type,
     category_id |-> t.category_id, occurred_at |-> t.occurred_at]

\* the columns 'type, amount, category_id'
SummaryView(t) ==
    [type |-> t.type, amount |-> t.amount, category_id |-> t.category_id]

(***************************************************************************)
(* routes/transactions.ts: the handlers.  A handler is the set of its      *)
(* possible outcomes: the store may fail, and it returns rows in an order  *)
(* the query does not fix.                                                 *)
(***************************************************************************)
\* the outcome of a handler that leaves the table as it is
NoChange(r) == [tx |-> transaction, nid |-> nextTxId, res |-> r]

\* GET /api/transactions
listPeriod(q) ==
    IF q.month # Undefined
    THEN firstLastDayOfMonth(q.month)
    ELSE [from |-> q.from, to |-> q.to]

\* .order('occurred_at', { ascending: false })
OrderedByDateDesc(rows) ==
    \A i \in 1..Len(rows) - 1 : DateLeq(rows[i + 1].occurred_at, rows[i].occurred_at)

listRoute(c, q) ==
    LET r0     == [Reply("list", c) EXCEPT !.query = q]
        userId == r0.userId
    IN  IF userId = Null THEN {ProfileNotFound(r0)}
        ELSE IF ~listQuerySchema(q) THEN {ValidationError(r0)}
        ELSE
          LET p       == listPeriod(q)
              r1      == [r0 EXCEPT !.from = p.from, !.to = p.to]
              matched == selectTransactions(userId, p.from, p.to, q.type)
          IN  { StoreFailure(r1, e) : e \in StoreErrors }
              \cup
              { [r1 EXCEPT !.status = 200, !.fields = {"rows"}, !.fetches = 1,
                           !.rows = [i \in 1..Len(o) |-> RowView(o[i])],
                           !.touched = Owners(matched)]
                : o \in { o \in Orderings(matched) : OrderedByDateDesc(o) } }

\* POST /api/transactions
createRoute(c, body) ==
    LET r0     == Reply("create", c)
        userId == r0.userId
    IN  IF ~createSchema(body) THEN {NoChange(ValidationError(r0))}
        ELSE IF userId = Null THEN {NoChange(ProfileNotFound(r0))}
        ELSE
          LET occurred_at == IF body.occurred_at # Undefined /\ YMD(body.occurred_at)
                             THEN body.occurred_at
                             ELSE todayYmd
              payload ==
                [ user_id     |-> userId,
                  amount      |-> body.amount[1],
                  type        |-> body.type,
                  category_id |-> IF body.category_id # Undefined
                                  THEN body.category_id[1] ELSE Null,
                  occurred_at |-> occurred_at ]
              row == [id |-> nextTxId] @@ payload
          IN  { NoChange(StoreFailure(r0, e)) : e \in StoreErrors }
              \cup
              { [ tx  |-> transaction \cup {row},
                  nid |-> nextTxId + 1,
                  res |-> [r0 EXCEPT !.status = 201, !.fields = {"row"},
                                     !.fetches = 1, !.rows = <<RowView(row)>>,
                                     !.touched = Owners({row})] ] }

\* const patch = { ...parsed.data }; delete patch.user_id
\* (parsed.data holds the keys of the schema only)
patchOf(body) ==
    [ amount      |-> body.amount,
      type        |-> body.type,
      category_id |-> body.category_id,
      occurred_at |-> body.occurred_at,
      user_id     |-> Undefined ]

patchIsEmpty(patch) ==
    /\ patch.amount = Undefined
    /\ patch.type = UndefinedStr
    /\ patch.category_id = Undefined
    /\ patch.occurred_at = Undefined
    /\ patch.user_id = Undefined

\* PATCH /api/transactions/:id    (id = << >> stands for a non-numeric :id)
updateRoute(c, id, body) ==
    LET r0     == [Reply("update", c) EXCEPT !.id = id]
        userId == r0.userId
    IN  IF id = Undefined THEN {NoChange(Status(r0, 400, "id invalido"))}
        ELSE IF ~updateSchema(body) THEN {NoChange(ValidationError(r0))}
        ELSE IF userId = Null THEN {NoChange(ProfileNotFound(r0))}
        ELSE
          LET patch   == patchOf(body)
              targets == IF patchIsEmpty(patch) THEN {} ELSE updateTargets(id[1], userId)
              updated == { applyPatch(t, patch) : t \in targets }
          IN  IF patch.occurred_at # Undefined /\ ~YMD(patch.occurred_at)
              THEN {NoChange(Status(r0, 400, "Fecha invalida (YYYY-MM-DD)"))}
              ELSE
                { NoChange(StoreFailure(r0, e)) : e \in StoreErrors }
                \cup
                \* .single(): anything but exactly one row is an error
                ( IF Cardinality(targets) # 1
                  THEN { NoChange(StoreFailure(r0, "no rows returned")) }
                  ELSE { [ tx  |-> (transaction \ targets) \cup updated,
                           nid |-> nextTxId,
                           res |-> [r0 EXCEPT
                                      !.status = 200, !.fields = {"row"}, !.fetches = 1,
                                      !.rows = [i \in 1..1 |->
                                                 RowView(CHOOSE t \in updated : TRUE)],
                                      !.touched = Owners(targets)] ] } )

\* DELETE /api/transactions/:id
deleteRoute(c, id) ==
    LET r0     == [Reply("delete", c) EXCEPT !.id = id]
        userId == r0.userId
    IN  IF id = Undefined THEN {NoChange(Status(r0, 400, "id invalido"))}
        ELSE IF userId = Null THEN {NoChange(ProfileNotFound(r0))}
        ELSE
          LET targets == deleteTargets(id[1], userId)
          IN  { NoChange(StoreFailure(r0, e)) : e \in StoreErrors }
              \cup
              { [ tx  |-> transaction \ targets,
                  nid |-> nextTxId,
                  res |-> [r0 EXCEPT !.status = 200, !.fields = {"ok"}, !.fetches = 1,
                                     !.touched = Owners(targets)] ] }

(***************************************************************************)
(* GET /api/transactions/summary/month                                     *)
(***************************************************************************)
\* byCat: a Map, modelled as the sequence of its entries in insertion order
MapHas(map, k) == \E i \in 1..Len(map) : map[i].category_id = k

MapGet(map, k) ==
    map[CHOOSE i \in 1..Len(map) : map[i].category_id = k].total

\* byCat.set(k, v): an existing key keeps its position
MapSet(map, k, v) ==
    IF MapHas(map, k)
    THEN [i \in 1..Len(map) |->
            IF map[i].category_id = k THEN [map[i] EXCEPT !.total = v] ELSE map[i]]
    ELSE Append(map, [category_id |-> k, total |-> v])

\* variant: the 'else' before exp += amt is missing
foldRowMissingElse(acc, r) ==
    LET amt == r.amount
    IN  [ inc   |-> IF r.type = "income" THEN acc.inc + amt ELSE acc.inc,
          exp   |-> acc.exp + amt,
          byCat |-> IF r.category_id # Null
                    THEN MapSet(acc.byCat, r.category_id,
                                (IF MapHas(acc.byCat, r.category_id)
                                 THEN MapGet(acc.byCat, r.category_id) ELSE 0) + amt)
                    ELSE acc.byCat ]

\* variant: byCat.set(r.category_id, amt) overwrites the running total
foldRowOverwrite(acc, r) ==
    LET amt == r.amount
    IN  [ inc   |-> IF r.type = "income" THEN acc.inc + amt ELSE acc.inc,
          exp   |-> IF r.type = "income" THEN acc.exp ELSE acc.exp + amt,
          byCat |-> IF r.category_id # Null
                    THEN MapSet(acc.byCat, r.category_id, amt)
                    ELSE acc.byCat ]

\* one iteration of  for (const r of rows ?? [])
foldRow(acc, r) ==
    LET amt == r.amount
    IN  [ inc   |-> IF r.type = "income" THEN acc.inc + amt ELSE acc.inc,
          exp   |-> IF r.type = "income" THEN acc.exp ELSE acc.exp + amt,
          byCat |-> IF r.category_id # Null
                    THEN MapSet(acc.byCat, r.category_id,
                                (IF MapHas(acc.byCat, r.category_id)
                                 THEN MapGet(acc.byCat, r.category_id) ELSE 0) + amt)
                    ELSE acc.byCat ]

RECURSIVE foldRows(_, _, _)
foldRows(rows, i, acc) ==
    IF i > Len(rows) THEN acc ELSE foldRows(rows, i + 1, foldRow(acc, rows[i]))

\* variant: the comparator (a, b) => a.total - b.total
byTotalAsc(a, b) == a.total - b.total

\* the comparator (a, b) => b.total - a.total
byTotalDesc(a, b) == b.total - a.total

\* insert x into the sorted sequence s behind every element that does not
\* compare greater than x (Array.prototype.sort is stable)
RECURSIVE insertSorted(_, _, _)
insertSorted(s, x, i) ==
    IF i > Len(s) THEN Append(s, x)
    ELSE IF byTotalDesc(s[i], x) > 0
         THEN SubSeq(s, 1, i - 1) \o <<x>> \o SubSeq(s, i, Len(s))
         ELSE insertSorted(s, x, i + 1)

RECURSIVE sortFrom(_, _, _)
sortFrom(s, i, acc) ==
    IF i > Len(s) THEN acc ELSE sortFrom(s, i + 1, insertSorted(acc, s[i], 1))

\* Array.from(byCat.entries()).map(...).sort((a, b) => b.total - a.total)
sortByCategory(byCat) == sortFrom(byCat, 1, << >>)

\* the aggregation of the fetched rows
summarize(rows) ==
    LET acc == foldRows(rows, 1, [inc |-> 0, exp |-> 0, byCat |-> << >>])
    IN  [ inc        |-> acc.inc,
          exp        |-> acc.exp,
          net        |-> acc.inc - acc.exp,
          byCategory |-> sortByCategory(acc.byCat) ]

\* typeof req.query.month === 'string' && YM.test(req.query.month) ? ... : now
summaryMonth(qmonth) ==
    IF qmonth # Undefined /\ YM(qmonth) THEN qmonth ELSE currentMonth

SummaryFields == {"month", "from", "to", "inc", "exp", "net", "byCategory"}

\* variant: the error of the fetch is not looked at
summaryAnswerIgnoringError(r1, rows, error) ==
    LET s == summarize(rows)
    IN  [r1 EXCEPT !.status = 200, !.fields = SummaryFields, !.fetches = 1,
                   !.storeError = error,
                   !.rows = rows, !.inc = s.inc, !.exp = s.exp, !.net = s.net,
                   !.byCategory = s.byCategory]

\* the answer to a fetch that returned { data: rows, error }
summaryAnswer(r1, rows, error) ==
    IF error # ""
    THEN StoreFailure(r1, error)
    ELSE LET s == summarize(rows)
         IN  [r1 EXCEPT !.status = 200, !.fields = SummaryFields, !.fetches = 1,
                        !.rows = rows, !.inc = s.inc, !.exp = s.exp, !.net = s.net,
                        !.byCategory = s.byCategory]

summaryRoute(c, qmonth) ==
    LET r0     == [Reply("summary", c) EXCEPT !.query.month = qmonth]
        userId == r0.userId
    IN  IF userId = Null THEN {ProfileNotFound(r0)}
        ELSE
          LET month   == summaryMonth(qmonth)
              p       == firstLastDayOfMonth(month)
              r1      == [r0 EXCEPT !.month = month, !.from = p.from, !.to = p.to]
              matched == selectTransactions(userId, p.from, p.to, UndefinedStr)
          IN  { summaryAnswer(r1, << >>, e) : e \in StoreErrors }
              \cup
              { summaryAnswer([r1 EXCEPT !.touched = Owners(matched)],
                              [i \in 1..Len(o) |-> SummaryView(o[i])], "")
                : o \in Orderings(matched) }

(***************************************************************************)
(* middleware/auth.ts: a request without a valid bearer token is answered  *)
(* 401 before its handler runs.                                            *)
(***************************************************************************)
TxRoutes == {"list", "create", "update", "delete", "summary"}

requireAuthRejects(route, detail) ==
    Status([NoRes EXCEPT !.route = route], 401, detail)

(***************************************************************************)
(* Actions on the transaction routes.                                      *)
(***************************************************************************)
GoalsUnchanged == UNCHANGED <<financial_goal, nextGoalId>>
ClockUnchanged == UNCHANGED <<tz, today>>
ChatUnchanged == UNCHANGED <<chat_message, nextMsgId, chat, apiKey>>

\* a handler runs when no response is being written
Idle == res = NoRes

Commit(o) ==
    /\ transaction' = o.tx
    /\ nextTxId' = o.nid
    /\ res' = o.res
    /\ GoalsUnchanged
    /\ ClockUnchanged
    /\ ChatUnchanged

Answer(r) ==
    /\ res' = r
    /\ UNCHANGED <<transaction, nextTxId>>
    /\ GoalsUnchanged
    /\ ClockUnchanged
    /\ ChatUnchanged

TxUnauthenticated ==
    Idle /\ \E route \in TxRoutes, detail \in {"Falta token", "Token invalido"} :
        Answer(requireAuthRejects(route, detail))

TxList(Callers, Queries) ==
    Idle /\ \E c \in Callers, q \in Queries : \E r \in listRoute(c, q) : Answer(r)

TxCreate(Callers, Bodies, Max) ==
    /\ Idle
    /\ nextTxId <= Max
    /\ \E c \in Callers, body \in Bodies : \E o \in createRoute(c, body) : Commit(o)

TxUpdate(Callers, Bodies) ==
    Idle /\ \E c \in Callers, id \in {<< >>} \cup {<<i>> : i \in 1..MaxTx}, body \in Bodies :
        \E o \in updateRoute(c, id, body) : Commit(o)

TxDelete(Callers) ==
    Idle /\ \E c \in Callers, id \in {<< >>} \cup {<<i>> : i \in 1..MaxTx} :
        \E o \in deleteRoute(c, id) : Commit(o)

TxSummary(Callers, Months) ==
    Idle /\ \E c \in Callers, qmonth \in Months : \E r \in summaryRoute(c, qmonth) : Answer(r)

\* res.json(...) has been written: the response is out
Send ==
    /\ ~Idle
    /\ res' = NoRes
    /\ UNCHANGED <<transaction, nextTxId>>
    /\ GoalsUnchanged
    /\ ClockUnchanged
    /\ ChatUnchanged

(***************************************************************************)
(* Inputs of the transaction requests.                                     *)
(***************************************************************************)
TimeZones == {-4, 0, 2}

Feb29 == <<2024, 2, 29>>
Mar01 == <<2024, 3, 1>>

TxBody(amount, type, category_id, occurred_at, user_id) ==
    [amount |-> amount, type |-> type, category_id |-> category_id,
     occurred_at |-> occurred_at, user_id |-> user_id]

\* bodies of POST / in Spec (the last two fail the schema)
CreateBodies ==
    { TxBody(<<a>>, t, Undefined, Undefined, Undefined)
        : a \in {-5, 10}, t \in TxTypes }
    \cup { TxBody(Undefined, "income", Undefined, Undefined, Undefined),
           TxBody(<<10>>, "transfer", Undefined, <<2024, 2>>, Undefined) }

\* bodies of PATCH /:id in Spec
UpdateBodies ==
    { TxBody(a, t, Undefined, Undefined, u)
        : a \in {Undefined, <<-5>>, <<20>>}, t \in {UndefinedStr, "expense"},
          u \in {Undefined, <<2>>} }
    \cup { TxBody(<<1>>, "transfer", Undefined, Undefined, Undefined),
           TxBody(<<1>>, "income", <<-1>>, <<2024, 3>>, Undefined) }

ListQuery(month, from, to, type) ==
    [month |-> month, from |-> from, to |-> to, type |-> type]

\* queries of GET / in Spec
ListQueries ==
    { ListQuery(Undefined, Undefined, Undefined, t) : t \in {UndefinedStr, "income"} }
    \cup { ListQuery(<<2024, 2>>, Undefined, Undefined, UndefinedStr),
           ListQuery(Undefined, Mar01, Undefined, UndefinedStr),
           ListQuery(Undefined, Undefined, Feb29, "weekly") }

\* month parameters of GET /summary/month in Spec
SummaryMonths == {Undefined, <<2024, 2>>, <<2024, 3>>}

\* bodies of POST / in SpecSummary: rows with and without a category
SummaryBodies ==
    { TxBody(<<a>>, t, k, Undefined, Undefined)
        : a \in {10, 20}, t \in TxTypes, k \in {Undefined, <<1>>, <<2>>} }

\* month parameters in SpecPeriod: absent, well-formed (any two-digit month,
\* two-digit years included) and tokens that fail the pattern YM
PeriodMonths ==
    {Undefined}
    \cup { <<y, m>> : y \in {99, 2023, 2024, 2100}, m \in 0..13 }
    \cup { <<2024>>, <<2024, 2, 15>>, <<2024, 123>> }

PeriodDates == {Undefined, Feb29, Mar01, <<2023, 12, 31>>, <<2024, 3>>, <<2024, 3, 101>>}

\* queries of GET / in SpecPeriod
PeriodQueries ==
    { ListQuery(m, f, t, UndefinedStr)
        : m \in {Undefined, <<2024, 2>>, <<2023, 12>>, <<99, 1>>, <<2024, 13>>,
                 <<2024, 2, 15>>, <<2024>>},
          f \in PeriodDates, t \in PeriodDates }

\* server clocks in SpecPeriod
PeriodClocks == {Feb29, <<2023, 12, 31>>, <<2025, 1, 1>>}

PeriodTimeZones == {-12, -4, 0, 1, 2, 14}

(***************************************************************************)
(* routes/goals.ts                                                         *)
(***************************************************************************)
GoalBody(title, target_amount, current_amount) ==
    [title |-> title, target_amount |-> target_amount,
     current_amount |-> current_amount]

\* createSchema of goals.ts: title of two characters or more,
\* target_amount a positive number (unknown keys are stripped)
goalCreateSchema(body) ==
    /\ body.title \in {"casa", "viaje"}
    /\ Len(body.target_amount) = 1
    /\ body.target_amount[1] > 0

\* updateSchema of goals.ts: createSchema.partial() extended by
\* current_amount >= 0
goalUpdateSchema(body) ==
    /\ body.title # UndefinedStr => body.title \in {"casa", "viaje"}
    /\ body.target_amount # Undefined => body.target_amount[1] > 0
    /\ body.current_amount # Undefined => body.current_amount[1] >= 0

\* .from('financial_goal').select('*').eq('user_id', userId)
selectGoals(userId) == { g \in financial_goal : g.user_id = userId }

\* .from('financial_goal').update(parse.data).eq('id', id)
goalUpdateTargets(id) == { g \in financial_goal : g.id = id }

\* .from('financial_goal').delete().eq('id', id)
goalDeleteTargets(id) == { g \in financial_goal : g.id = id }

applyGoalPatch(g, patch) ==
    [g EXCEPT
       !.title          = IF patch.title # UndefinedStr THEN patch.title ELSE @,
       !.target_amount  = IF patch.target_amount # Undefined
                          THEN patch.target_amount[1] ELSE @,
       !.current_amount = IF patch.current_amount # Undefined
                          THEN patch.current_amount[1] ELSE @]

goalPatchIsEmpty(patch) ==
    /\ patch.title = UndefinedStr
    /\ patch.target_amount = Undefined
    /\ patch.current_amount = Undefined

GoalNoChange(r) == [goals |-> financial_goal, nid |-> nextGoalId, res |-> r]

\* GET /api/goals   (.order('created_at', { ascending: false }): ids descend)
goalListRoute(c) ==
    LET r0     == Reply("goals.list", c)
        userId == r0.userId
    IN  IF userId = Null THEN {ProfileNotFound(r0)}
        ELSE
          LET matched == selectGoals(userId)
          IN  { StoreFailure(r0, e) : e \in StoreErrors }
              \cup
              { [r0 EXCEPT !.status = 200, !.fields = {"rows"}, !.fetches = 1,
                           !.rows = o, !.touched = Owners(matched)]
                : o \in { o \in Orderings(matched) :
                            \A i \in 1..Len(o) - 1 : o[i].id > o[i + 1].id } }

\* POST /api/goals
goalCreateRoute(c, body) ==
    LET r0     == Reply("goals.create", c)
        userId == r0.userId
    IN  IF userId = Null THEN {GoalNoChange(ProfileNotFound(r0))}
        ELSE IF ~goalCreateSchema(body) THEN {GoalNoChange(ValidationError(r0))}
        ELSE
          LET row == [ id             |-> nextGoalId,
                       user_id        |-> userId,
                       current_amount |-> 0,
                       title          |-> body.title,
                       target_amount  |-> body.target_amount[1] ]
          IN  { GoalNoChange(StoreFailure(r0, e)) : e \in StoreErrors }
              \cup
              { [ goals |-> financial_goal \cup {row},
                  nid   |-> nextGoalId + 1,
                  res   |-> [r0 EXCEPT !.status = 201, !.fields = {"row"},
                                       !.fetches = 1, !.rows = <<row>>,
                                       !.touched = Owners({row})] ] }

\* PATCH /api/goals/:id   (no profile lookup; Number(:id) may be NaN, which
\* matches no row)
goalUpdateRoute(c, id, body) ==
    LET r0 == [NoRes EXCEPT !.route = "goals.update", !.caller = c, !.id = id]
    IN  IF ~goalUpdateSchema(body) THEN {GoalNoChange(ValidationError(r0))}
        ELSE
          LET targets == IF id = Undefined \/ goalPatchIsEmpty(body)
                         THEN {} ELSE goalUpdateTargets(id[1])
              updated == { applyGoalPatch(g, body) : g \in targets }
          IN  { GoalNoChange(StoreFailure(r0, e)) : e \in StoreErrors }
              \cup
              ( IF Cardinality(targets) # 1
                THEN { GoalNoChange(StoreFailure(r0, "no rows returned")) }
                ELSE { [ goals |-> (financial_goal \ targets) \cup updated,
                         nid   |-> nextGoalId,
                         res   |-> [r0 EXCEPT
                                      !.status = 200, !.fields = {"row"}, !.fetches = 1,
                                      !.rows = [i \in 1..1 |-> CHOOSE g \in updated : TRUE],
                                      !.touched = Owners(targets)] ] } )

\* DELETE /api/goals/:id   (no profile lookup)
goalDeleteRoute(c, id) ==
    LET r0      == [NoRes EXCEPT !.route = "goals.delete", !.caller = c, !.id = id]
        targets == IF id = Undefined THEN {} ELSE goalDeleteTargets(id[1])
    IN  { GoalNoChange(StoreFailure(r0, e)) : e \in StoreErrors }
        \cup
        { [ goals |-> financial_goal \ targets,
            nid   |-> nextGoalId,
            res   |-> [r0 EXCEPT !.status = 200, !.fields = {"ok"}, !.fetches = 1,
                                 !.touched = Owners(targets)] ] }

GoalRoutes == {"goals.list", "goals.create", "goals.update", "goals.delete"}

GoalCreateBodies ==
    { GoalBody(t, a, Undefined) : t \in {"casa", "x"}, a \in {<<100>>, <<0>>, Undefined} }

GoalUpdateBodies ==
    { GoalBody(t, a, k)
        : t \in {UndefinedStr, "viaje"}, a \in {Undefined, <<500>>},
          k \in {Undefined, <<50>>, <<-1>>} }

GoalIds == {<< >>} \cup { <<i>> : i \in 1..MaxGoals }

GoalCommit(o) ==
    /\ financial_goal' = o.goals
    /\ nextGoalId' = o.nid
    /\ res' = o.res
    /\ UNCHANGED <<transaction, nextTxId>>
    /\ ClockUnchanged
    /\ ChatUnchanged

GoalUnauthenticated ==
    Idle /\ \E route \in GoalRoutes, detail \in {"Falta token", "Token invalido"} :
        Answer(requireAuthRejects(route, detail))

GoalList ==
    Idle /\ \E c \in AuthUsers : \E r \in goalListRoute(c) : Answer(r)

GoalCreate ==
    /\ Idle
    /\ nextGoalId <= MaxGoals
    /\ \E c \in AuthUsers, body \in GoalCreateBodies :
          \E o \in goalCreateRoute(c, body) : GoalCommit(o)

GoalUpdate ==
    Idle /\ \E c \in AuthUsers, id \in GoalIds, body \in GoalUpdateBodies :
        \E o \in goalUpdateRoute(c, id, body) : GoalCommit(o)

GoalDelete ==
    Idle /\ \E c \in AuthUsers, id \in GoalIds :
        \E o \in goalDeleteRoute(c, id) : GoalCommit(o)

(***************************************************************************)
(* routes/chat.ts.  POST /api/chat awaits the store, then the language     *)
(* model, then the store again; requests of several connections interleave *)
(* at these points.  chat[s] is the request of connection s: where its     *)
(* handler stands and what it holds.                                       *)
(***************************************************************************)
ChatSlots == 1..MaxChat

ChatIdle ==
    [ pc      |-> "idle",        \* idle, stored, calling, returned, done
      caller  |-> UndefinedStr,  \* req.user.id
      userId  |-> Null,          \* profile id the handler resolved
      userMsg |-> Null,          \* userMsg.id
      llm     |-> "",            \* response.output_text
      botMsg  |-> Null,          \* botMsg.id
      status  |-> 0,             \* HTTP status
      detail  |-> "" ]           \* body.detail

\* sendSchema = z.object({ message: z.string().min(1) })
sendSchema(body) == body.message # UndefinedStr /\ body.message # ""

ChatBodies == { [message |-> m] : m \in {"hola", "", UndefinedStr} }

\* output_text of the model; "" makes the handler use its fallback text
LLMOutputs == {"consejo", ""}

\* botText: output_text?.trim() || ... || 'No pude generar una respuesta...'
botTextOf(output) ==
    IF output # "" THEN output ELSE "No pude generar una respuesta en este momento."

\* the handler returns: its answer is kept, its locals are gone
ChatDone(r, code, detail) ==
    [r EXCEPT !.pc = "done", !.status = code, !.detail = detail, !.llm = ""]

\* the outcome of a step that leaves the table as it is
ChatNoInsert(r) == [msgs |-> chat_message, nid |-> nextMsgId, req |-> r]

\* .from('chat_message').insert({ user_id, sender, message })
chatInsert(userId, sender, message) ==
    [id |-> nextMsgId, user_id |-> userId, sender |-> sender, message |-> message]

\* POST /api/chat up to the insert of the user's message (step 1)
chatPostRoute(c, body) ==
    LET r0 == [ChatIdle EXCEPT !.caller = c, !.userId = getProfileIdByAuthId(c)]
    IN  IF r0.userId = Null THEN {ChatNoInsert(ChatDone(r0, 404, "Perfil no encontrado"))}
        ELSE IF ~sendSchema(body) THEN {ChatNoInsert(ChatDone(r0, 400, "validation"))}
        ELSE
          LET row == chatInsert(r0.userId, "user", body.message)
          IN  { ChatNoInsert(ChatDone(r0, 400, e)) : e \in StoreErrors }
              \cup
              { [ msgs |-> chat_message \cup {row},
                  nid  |-> nextMsgId + 1,
                  req  |-> [r0 EXCEPT !.pc = "stored", !.userMsg = row.id] ] }

\* variant: the placeholder answer is stored as a bot message
noKeyAnswerStoringBot(r) ==
    [ msgs |-> chat_message \cup {chatInsert(r.userId, "bot", "Por ahora no puedo responder con IA.")},
      nid  |-> nextMsgId + 1,
      req  |-> [ChatDone(r, 201, "") EXCEPT !.botMsg = nextMsgId] ]

\* if (!process.env.OPENAI_API_KEY) return res.status(201).json({ user, bot: { id: null, ... } })
noKeyAnswer(r) == ChatNoInsert(ChatDone(r, 201, ""))

\* after the insert: without a key the handler answers; with one it reads the
\* profile and the last messages (steps 2, 3) and calls the model (step 5)
chatAfterInsert(r) ==
    IF ~apiKey THEN noKeyAnswer(r)
    ELSE ChatNoInsert([r EXCEPT !.pc = "calling"])

\* catch (e): res.status(500).json({ detail: 'Error generando respuesta del bot' })
chatLLMThrew(r) == ChatDone(r, 500, "Error generando respuesta del bot")

\* the model answered: insert the bot's message and answer (steps 6 to 8)
chatStoreBot(r) ==
    LET row == chatInsert(r.userId, "bot", botTextOf(r.llm))
    IN  { ChatNoInsert(ChatDone(r, 400, e)) : e \in StoreErrors }
        \cup
        { [ msgs |-> chat_message \cup {row},
            nid  |-> nextMsgId + 1,
            req  |-> [ChatDone(r, 201, "") EXCEPT !.botMsg = row.id] ] }

OthersUnchanged ==
    /\ UNCHANGED <<transaction, nextTxId, res, apiKey>>
    /\ GoalsUnchanged
    /\ ClockUnchanged

ChatCommit(s, o) ==
    /\ chat_message' = o.msgs
    /\ nextMsgId' = o.nid
    /\ chat' = [chat EXCEPT ![s] = o.req]
    /\ OthersUnchanged

ChatAnswer(s, r) == ChatCommit(s, ChatNoInsert(r))

ChatPost ==
    \E s \in ChatSlots :
        /\ chat[s].pc = "idle"
        /\ Cardinality({m \in chat_message : m.sender = "user"}) < MaxMsgs
        /\ \E c \in AuthUsers, body \in ChatBodies :
              \E o \in chatPostRoute(c, body) : ChatCommit(s, o)

ChatAfterInsert ==
    \E s \in ChatSlots :
        /\ chat[s].pc = "stored"
        /\ ChatCommit(s, chatAfterInsert(chat[s]))

ChatLLMReturn ==
    \E s \in ChatSlots :
        /\ chat[s].pc = "calling"
        /\ \E out \in LLMOutputs :
              ChatAnswer(s, [chat[s] EXCEPT !.pc = "returned", !.llm = out])

ChatLLMThrow ==
    \E s \in ChatSlots :
        /\ chat[s].pc = "calling"
        /\ ChatAnswer(s, chatLLMThrew(chat[s]))

ChatStoreBot ==
    \E s \in ChatSlots :
        /\ chat[s].pc = "returned"
        /\ \E o \in chatStoreBot(chat[s]) : ChatCommit(s, o)

\* the response is out; the connection takes the next request
ChatSend ==
    \E s \in ChatSlots :
        /\ chat[s].pc = "done"
        /\ ChatAnswer(s, ChatIdle)

(***************************************************************************)
(* Specifications.                                                         *)
(*   Spec         the transaction routes, called by every user             *)
(*   SpecSummary  one user's rows, with categories, and their summary      *)
(*   SpecPeriod   the period of the list and summary queries, over month   *)
(*                tokens, date tokens, time zones and clocks               *)
(*   SpecGoals    the goal routes, called by every user                    *)
(*   SpecChat     the chat route, several requests in flight               *)
(***************************************************************************)
EmptyStore ==
    /\ transaction = {}
    /\ nextTxId = 1
    /\ financial_goal = {}
    /\ nextGoalId = 1
    /\ res = NoRes
    /\ chat_message = {}
    /\ nextMsgId = 1
    /\ chat = [s \in ChatSlots |-> ChatIdle]

Init ==
    /\ EmptyStore
    /\ tz \in TimeZones
    /\ today = Feb29
    /\ apiKey = TRUE

Next ==
    \/ TxUnauthenticated
    \/ TxList(AuthUsers, ListQueries)
    \/ TxCreate(AuthUsers, CreateBodies, MaxTx)
    \/ TxUpdate(AuthUsers, UpdateBodies)
    \/ TxDelete(AuthUsers)
    \/ TxSummary(AuthUsers, SummaryMonths)
    \/ Send

Spec == Init /\ [][Next]_vars

\* a server in America/Santiago (UTC-4), on 2024-02-29
InitSummary ==
    /\ EmptyStore
    /\ tz = -4
    /\ today = Feb29
    /\ apiKey = TRUE

NextSummary ==
    \/ TxCreate({"a1"}, SummaryBodies, MaxRows)
    \/ TxSummary({"a1"}, {Undefined, <<2024, 3>>})
    \/ Send

SpecSummary == InitSummary /\ [][NextSummary]_vars

InitPeriod ==
    /\ EmptyStore
    /\ tz \in PeriodTimeZones
    /\ today \in PeriodClocks
    /\ apiKey = TRUE

NextPeriod ==
    \/ TxList(AuthUsers, PeriodQueries)
    \/ TxSummary(AuthUsers, PeriodMonths)
    \/ Send

SpecPeriod == InitPeriod /\ [][NextPeriod]_vars

NextGoals ==
    \/ GoalUnauthenticated
    \/ GoalList
    \/ GoalCreate
    \/ GoalUpdate
    \/ GoalDelete
    \/ Send

SpecGoals == Init /\ [][NextGoals]_vars

InitChat ==
    /\ EmptyStore
    /\ tz = -4
    /\ today = Feb29
    /\ apiKey \in BOOLEAN

NextChat ==
    \/ ChatPost
    \/ ChatAfterInsert
    \/ ChatLLMReturn
    \/ ChatLLMThrow
    \/ ChatStoreBot
    \/ ChatSend

SpecChat == InitChat /\ [][NextChat]_vars

(***************************************************************************)
(* Properties.                                                             *)
(***************************************************************************)
\* the reference calendar
IsLeapYear(y) == (y % 4 = 0 /\ y % 100 # 0) \/ y % 400 = 0

DaysInMonth(y, m) ==
    IF m = 2 THEN (IF IsLeapYear(y) THEN 29 ELSE 28)
    ELSE IF m \in {4, 6, 9, 11} THEN 30 ELSE 31

RECURSIVE SumAmounts(_, _)
\* the sum of the amounts of the rows at the positions I
SumAmounts(rows, I) ==
    IF I = {} THEN 0
    ELSE LET i == CHOOSE i \in I : TRUE
         IN  rows[i].amount + SumAmounts(rows, I \ {i})

Positions(rows) == 1..Len(rows)

SummaryDone == res.route = "summary" /\ res.status = 200

\* a query whose period was handed to the store
Fetched == res.route \in {"list", "summary"} /\ res.fetches = 1

\* the month token the period of the query was derived from, if any
PeriodToken == IF res.route = "summary" THEN res.month ELSE res.query.month

\* C1: for every month token YYYY-MM with MM in 01..12 and every server time
\* zone, the period is from = YYYY-MM-01 and to = the last calendar day of
\* that month (28, 29, 30 or 31).
C1_MonthPeriod ==
    (Fetched /\ PeriodToken # Undefined /\ PeriodToken[2] \in 1..12)
    => /\ res.from = <<PeriodToken[1], PeriodToken[2], 1>>
       /\ res.to = <<PeriodToken[1], PeriodToken[2],
                     DaysInMonth(PeriodToken[1], PeriodToken[2])>>

\* C2: in the summary, inc is the sum of the amounts of the fetched income
\* rows, exp the sum of the amounts of the fetched expense rows and
\* net = inc - exp; no rows give inc = 0, exp = 0, net = 0.
C2_Totals ==
    SummaryDone
    => /\ res.inc = SumAmounts(res.rows,
                       {i \in Positions(res.rows) : res.rows[i].type = "income"})
       /\ res.exp = SumAmounts(res.rows,
                       {i \in Positions(res.rows) : res.rows[i].type = "expense"})
       /\ res.net = res.inc - res.exp
       /\ res.rows = << >> => res.inc = 0 /\ res.exp = 0 /\ res.net = 0

C2_Witness ==
    /\ SummaryDone
    /\ \E i, j \in Positions(res.rows) :
          res.rows[i].type = "income" /\ res.rows[j].type = "expense"
    /\ res.net < 0

\* C3: byCategory has exactly one entry for each non-null category_id of the
\* fetched rows, its total is the sum of the amounts of all fetched rows of
\* that category, and a row without a category is counted in inc or exp but
\* in no entry of byCategory.
C3_ByCategory ==
    SummaryDone
    => LET cats == { res.rows[i].category_id : i \in Positions(res.rows) } \ {Null}
       IN  /\ Len(res.byCategory) = Cardinality(cats)
           /\ \A k \in cats :
                \E j \in Positions(res.byCategory) :
                    /\ res.byCategory[j].category_id = k
                    /\ res.byCategory[j].total =
                         SumAmounts(res.rows, {i \in Positions(res.rows) :
                                                 res.rows[i].category_id = k})
           /\ \A j \in Positions(res.byCategory) :
                res.byCategory[j].category_id \in cats
           /\ res.inc + res.exp = SumAmounts(res.rows, Positions(res.rows))

C3_Witness ==
    /\ SummaryDone
    /\ \E i, j, k \in Positions(res.rows) :
          /\ i # j
          /\ res.rows[i].category_id = res.rows[j].category_id
          /\ res.rows[i].category_id # Null
          /\ res.rows[k].category_id = Null
    /\ Len(res.byCategory) = 1

\* C4: byCategory is ordered by total, non-increasing: each entry's total is
\* greater than or equal to the next entry's total.
C4_Descending ==
    SummaryDone
    => \A j \in 1..Len(res.byCategory) - 1 :
          res.byCategory[j].total >= res.byCategory[j + 1].total

\* the category met first has the smaller total: the sort has to move it
C4_Witness ==
    /\ SummaryDone
    /\ Len(res.byCategory) = 2
    /\ res.rows[1].category_id = res.byCategory[2].category_id
    /\ res.byCategory[1].total > res.byCategory[2].total

\* C5: when the fetch of the summary returns an error, the answer is an error
\* response carrying the store's message; the fetch is issued once and no
\* summary field is computed or returned.
C5_FetchError ==
    (res.route = "summary" /\ res.storeError # "")
    => /\ res.status = 400
       /\ res.detail = res.storeError
       /\ res.fields = {"detail"}
       /\ res.fetches = 1
       /\ res.inc = 0 /\ res.exp = 0 /\ res.net = 0 /\ res.byCategory = << >>

C5_Witness ==
    /\ res.route = "summary"
    /\ res.storeError # ""
    /\ \E t \in transaction :
          t.user_id = res.userId /\ DateLeq(res.from, t.occurred_at)
                                 /\ DateLeq(t.occurred_at, res.to)

\* a period parameter was supplied and fails its pattern
Malformed(q) ==
    \/ q.month # Undefined /\ ~YM(q.month)
    \/ q.from # Undefined /\ ~YMD(q.from)
    \/ q.to # Undefined /\ ~YMD(q.to)

\* C6: a request of a user with a profile that supplies a month or date token
\* failing its pattern is answered with a client error, on the list and on
\* the summary; the current month never stands in for a malformed token.
C6_MalformedRejected ==
    (res.route \in {"list", "summary"} /\ res.userId # Null /\ Malformed(res.query))
    => res.status = 400 /\ res.fetches = 0

\* C7 (as stated): every period [from, to] a transaction query is filtered by
\* satisfies from <= to, whether derived from a month token or supplied.
C7_FromLeqTo ==
    (Fetched /\ res.from # Undefined /\ res.to # Undefined)
    => DateLeq(res.from, res.to)

\* C7 (amended): every period derived from a month token (the summary, and
\* the list when month is supplied, which overrides supplied from/to)
\* has both bounds and satisfies from <= to.
C7_MonthPeriodOrdered ==
    (Fetched /\ PeriodToken # Undefined)
    => /\ res.from # Undefined
       /\ res.to # Undefined
       /\ DateLeq(res.from, res.to)

\* the list, month supplied together with an inverted from/to
C7_Witness ==
    /\ Fetched
    /\ res.route = "list"
    /\ res.query.month # Undefined
    /\ res.query.from = Mar01
    /\ res.query.to = Feb29
    /\ res.from # res.query.from

\* C8: after any accepted POST / and PATCH /:id, every stored transaction's
\* amount is a non-negative magnitude.
C8_NonNegativeAmount ==
    \A t \in transaction : t.amount >= 0

\* C9: a list, summary, PATCH /:id or DELETE /:id request reads, modifies or
\* removes only transactions whose user_id is the caller's profile id, and
\* no request changes a transaction's user_id.
C9_OwnRowsOnly ==
    [][ LET uid == getProfileIdByAuthId(res'.caller)
        IN  /\ \A t \in transaction : t.user_id # uid => t \in transaction'
            /\ \A t \in transaction : \A u \in transaction' :
                  t.id = u.id => t.user_id = u.user_id
            /\ \A x \in res'.touched : x[2] = uid
            /\ res'.route = "list" =>
                  \A i \in Positions(res'.rows) :
                     \E t \in transaction :
                        t.id = res'.rows[i].id /\ t.user_id = uid
      ]_vars

\* a PATCH or DELETE aimed at a row of another user, with the row in place
C9_Witness ==
    /\ res.route \in {"update", "delete"}
    /\ res.userId # Null
    /\ res.id # Undefined
    /\ res.fetches = 1
    /\ \E t \in transaction : t.id = res.id[1] /\ t.user_id # res.userId

\* C10: PATCH /api/goals/:id and DELETE /api/goals/:id modify or remove a goal
\* only if its user_id is the caller's profile id.
C10_OwnGoalsOnly ==
    [][ res'.route \in {"goals.update", "goals.delete"}
        => \A g \in financial_goal :
              g.user_id # getProfileIdByAuthId(res'.caller) => g \in financial_goal'
      ]_vars

MessagesOf(userId, sender) ==
    { m \in chat_message : m.user_id = userId /\ m.sender = sender }

\* the user's message of the request of connection s is in the table
UserMessageStored(s) ==
    \E m \in chat_message :
        m.id = chat[s].userMsg /\ m.sender = "user" /\ m.user_id = chat[s].userId

\* the request of connection s ended without an answer of the model:
\* no API key (201 with a placeholder), or the call threw (500)
EndedWithoutAnswer(r) ==
    r.pc = "done" /\ (r.status = 500 \/ (r.status = 201 /\ ~apiKey))

C11_State ==
    /\ \A s \in ChatSlots :
          chat[s].pc \in {"calling", "returned"} => UserMessageStored(s)
    /\ \A s \in ChatSlots :
          EndedWithoutAnswer(chat[s]) => UserMessageStored(s) /\ chat[s].botMsg = Null
    /\ \A p \in user_profile :
          Cardinality(MessagesOf(p.id, "bot")) <= Cardinality(MessagesOf(p.id, "user"))

C11_Step ==
    /\ chat_message \subseteq chat_message'
    /\ \A m \in chat_message' \ chat_message :
          m.sender = "bot" =>
             \E s \in ChatSlots :
                /\ chat[s].pc = "returned"
                /\ chat'[s].pc = "done"
                /\ chat[s].userId = m.user_id
                /\ UserMessageStored(s)
    /\ \A s \in ChatSlots :
          (chat[s].pc # "done" /\ EndedWithoutAnswer(chat'[s]))
          => chat_message' = chat_message

\* C11: in POST /api/chat the user's message is stored before the model is
\* called, and a bot message is stored only by a request whose call of the
\* model has returned; a request that ends without a key or with a throwing
\* call leaves the user's message stored and stores no bot message; each
\* user's bot messages number at most their user messages.
\* (C11_State holds of the empty table of the initial state; every other
\* reachable state is the end of a step)
C11_ChatOrder == [][C11_Step /\ C11_State']_vars

\* a call of the model threw while the table holds a bot message of an
\* earlier answer
C11_Witness ==
    /\ \E s \in ChatSlots : chat[s].pc = "done" /\ chat[s].status = 500
    /\ \E m \in chat_message : m.sender = "bot"
=============================================================================
